---- MODULE Spec2Model ----
(***************************************************************************)
(* Model of the monoalphabetic SKU cipher: src/src/MonoalphabeticCipher.js *)
(* (class MonoalphabeticCipher) and src/index.js (module-level helpers).   *)
(*                                                                         *)
(* Strings are sequences of UTF-16 code units (what split(''), charCodeAt  *)
(* and join('') work on).  JavaScript numbers are represented exactly:     *)
(* a non-negative integer is a little-endian sequence of 11-bit limbs, so  *)
(* that the 32-bit hash, the 62-bit product of the generator and its       *)
(* rounding to an IEEE-754 double are computed as the engine computes      *)
(* them, without leaving the integers TLC can hold.                        *)
(***************************************************************************)
EXTENDS Integers, Sequences, FiniteSets, TLC

(***************************************************************************)
(* Exact arithmetic on limb sequences.                                     *)
(***************************************************************************)
LimbBits == 11
LimbBase == 2^LimbBits

\* carry propagation: column sums c (least significant first) to limbs,
\* producing exactly n limbs
RECURSIVE Carry(_, _, _, _)
Carry(c, k, n, carry) ==
    IF k > n THEN <<>>
    ELSE LET t == (IF k <= Len(c) THEN c[k] ELSE 0) + carry
         IN  <<t % LimbBase>> \o Carry(c, k + 1, n, t \div LimbBase)

\* a number below 2^31 as three limbs
ToLimbs(x) == <<x % LimbBase, (x \div LimbBase) % LimbBase, x \div (LimbBase * LimbBase)>>

\* product of two three-limb numbers, six limbs
MulLimbs(a, b) ==
    Carry(<< a[1] * b[1],
             a[1] * b[2] + a[2] * b[1],
             a[1] * b[3] + a[2] * b[2] + a[3] * b[1],
             a[2] * b[3] + a[3] * b[2],
             a[3] * b[3] >>, 1, 6, 0)

\* number of significant bits of a value below 2^11
BitLenSmall(x) == IF x = 0 THEN 0 ELSE CHOOSE n \in 1..LimbBits : 2^(n-1) <= x /\ x < 2^n

\* number of significant bits of a limb sequence
RECURSIVE TopLimb(_, _)
TopLimb(x, k) == IF k = 0 THEN 0 ELSE IF x[k] # 0 THEN k ELSE TopLimb(x, k - 1)

BitLen(x) ==
    LET h == TopLimb(x, Len(x))
    IN  IF h = 0 THEN 0 ELSE LimbBits * (h - 1) + BitLenSmall(x[h])

(***************************************************************************)
(* IEEE-754 double: an integer result is rounded to 53 significant bits,   *)
(* ties to even.  The values rounded here are below 2^63, so at most ten   *)
(* low bits are dropped and all of them lie in the lowest limb.            *)
(***************************************************************************)
MantissaBits == 53

RoundToDouble(x) ==
    LET e == BitLen(x) - MantissaBits
    IN  IF e <= 0 THEN x
        ELSE LET r    == x[1] % (2^e)
                 half == 2^(e-1)
                 odd  == (x[1] \div (2^e)) % 2 = 1
                 up   == r > half \/ (r = half /\ odd)
             IN  Carry([x EXCEPT ![1] = x[1] - r + (IF up THEN 2^e ELSE 0)],
                       1, Len(x), 0)

\* x & 0x7fffffff of a non-negative integer-valued double: ToInt32 keeps the
\* value modulo 2^32 and the mask keeps its low 31 bits; three limbs
Mask31(x) == <<x[1], x[2], x[3] % (2^(31 - 2 * LimbBits))>>

\* x & 0xffffffff read back as an unsigned 32-bit residue; three limbs
Wrap32(x) == <<x[1], x[2], x[3] % (2^(32 - 2 * LimbBits))>>

\* the value of a three-limb number known to be below 2^31
ToInt(x) == x[1] + LimbBase * x[2] + LimbBase * LimbBase * x[3]

(***************************************************************************)
(* Strings and the alphabet.                                               *)
(***************************************************************************)
\* code units 'a'..'z', 'A'..'Z', '0'..'9'
CodeLowerA == 97
CodeUpperA == 65
CodeDigit0 == 48

\* an alphabet that also holds '/' (63 characters)
chars_withSlash ==
    [i \in 1..26 |-> CodeLowerA + i - 1] \o [i \in 1..26 |-> CodeUpperA + i - 1]
        \o [i \in 1..10 |-> CodeDigit0 + i - 1] \o <<47>>

\* const chars = 'abc...xyzABC...XYZ0123456789' (62 characters)
chars ==
    [i \in 1..26 |-> CodeLowerA + i - 1] \o [i \in 1..26 |-> CodeUpperA + i - 1]
        \o [i \in 1..10 |-> CodeDigit0 + i - 1]

Alphabet == {chars[i] : i \in 1..Len(chars)}

\* the value JavaScript yields for a missing array element, a missing
\* property and a missing argument; it is no code unit
Undefined == -1

\* arr[k] for a zero-based index k; undefined outside the array
At(arr, k) == IF k + 1 \in DOMAIN arr THEN arr[k + 1] ELSE Undefined

(***************************************************************************)
(* hashKey(key)                                                            *)
(***************************************************************************)
\* a hash read back unsigned, without the absolute value: hash >>> 0
MathAbs_unsigned(u) == u

\* Math.abs of the int32 whose unsigned 32-bit residue is u: a residue of
\* 2^31 or more is the negative number u - 2^32
MathAbs(u) ==
    IF u[3] < 2^(31 - 2 * LimbBits) THEN u
    ELSE Carry(<<(LimbBase - 1 - u[1]) + 1, LimbBase - 1 - u[2],
                 2^(32 - 2 * LimbBits) - 1 - u[3]>>, 1, 3, 0)

\* a round without the mask: hash = (hash << 5) - hash + key.charCodeAt(i);
\* the hash leaves the 32-bit range
hashStep_noMask(hash, code) ==
    Carry(<<32 * hash[1] - hash[1] + code,
            32 * hash[2] - hash[2],
            32 * hash[3] - hash[3]>>, 1, 3, 0)

\* a round that leaves the character out: hash = ((hash << 5) - hash) & 0xffffffff
hashStep_withoutCode(hash, code) ==
    Wrap32(Carry(<<32 * hash[1] - hash[1],
                   32 * hash[2] - hash[2],
                   32 * hash[3] - hash[3]>>, 1, 3, 0))

\* one round of the loop: hash = ((hash << 5) - hash + key.charCodeAt(i)) & 0xffffffff
hashStep(hash, code) ==
    Wrap32(Carry(<<32 * hash[1] - hash[1] + code,
                   32 * hash[2] - hash[2],
                   32 * hash[3] - hash[3]>>, 1, 3, 0))

\* the rounds i = lo, lo + 1, ..., hi of  for (let i = 0; i < key.length; i++),
\* in that order.  The range is halved, and each half's value is bound through
\* a singleton set, so that TLC computes the rounds one after the other without
\* nesting its evaluation as deep as the loop is long.
RECURSIVE hashLoop(_, _, _, _)
hashLoop(key, lo, hi, hash) ==
    IF hi < lo THEN hash
    ELSE IF lo = hi THEN hashStep(hash, At(key, lo))
    ELSE LET mid == (lo + hi) \div 2
         IN  CHOOSE r \in {hashLoop(key, mid + 1, hi, h) :
                              h \in {hashLoop(key, lo, mid, hash)}} : TRUE

hashKey(key) == MathAbs(hashLoop(key, 0, Len(key) - 1, <<0, 0, 0>>))

(***************************************************************************)
(* seededRandom(seed): the closure's state and the value it returns        *)
(***************************************************************************)
LcgMultiplier == 1103515245
LcgIncrement == 12345
LcgDivisor == 2147483647

\* a generator whose mask keeps 32 bits: & 0xffffffff
rngNextState_mask32(state) ==
    LET product == RoundToDouble(MulLimbs(state, ToLimbs(LcgMultiplier)))
        sum     == RoundToDouble(
                       Carry([product EXCEPT ![1] = product[1] + LcgIncrement],
                             1, Len(product), 0))
    IN  Wrap32(sum)

\* state = (state * 1103515245 + 12345) & 0x7fffffff, in double arithmetic:
\* the product is rounded, then the sum is rounded, then the mask applies
rngNextState(state) ==
    LET product == RoundToDouble(MulLimbs(state, ToLimbs(LcgMultiplier)))
        sum     == RoundToDouble(
                       Carry([product EXCEPT ![1] = product[1] + LcgIncrement],
                             1, Len(product), 0))
    IN  Mask31(sum)

\* Math.floor((state / 0x7fffffff) * n) for 0 <= state <= 0x7fffffff and
\* 1 <= n < 2^11.  With state * n = q * 2^31 + r the exact quotient by
\* 2^31 - 1 is q, plus one when q + r >= 2^31 - 1.  The two roundings of the
\* double computation cannot carry the value across an integer: the divisor
\* is prime, so the exact quotient is an integer only for state = 0 and
\* state = 0x7fffffff, and otherwise lies at least 2^-31 from one.
drawIndex(state, n) ==
    LET x == Carry(<<state[1] * n, state[2] * n, state[3] * n>>, 1, 4, 0)
        q == x[3] \div (2^(31 - 2 * LimbBits)) + x[4] * (2^(3 * LimbBits - 31))
        r == ToInt(Mask31(x))
    IN  q + (IF r >= LcgDivisor - q THEN 1 ELSE 0)

(***************************************************************************)
(* deterministicShuffle(str, seed)                                         *)
(***************************************************************************)
\* a swap without the destructuring: arr[i] = arr[j]; arr[j] = arr[i]
Swap_overwrite(arr, i, j) ==
    IF j + 1 > Len(arr) THEN arr ELSE [arr EXCEPT ![i + 1] = At(arr, j)]

\* [arr[i], arr[j]] = [arr[j], arr[i]] for zero-based i, j; an assignment
\* past the end grows the array
Swap(arr, i, j) ==
    LET grown == IF j + 1 > Len(arr)
                 THEN arr \o [k \in 1..(j + 1 - Len(arr)) |-> Undefined]
                 ELSE arr
    IN  [grown EXCEPT ![i + 1] = At(arr, j), ![j + 1] = At(arr, i)]

\* a join that writes each distinct element once: [...new Set(arr)].join('')
Join_throughSet(arr) ==
    LET keep == {p \in 1..Len(arr) :
                    arr[p] # Undefined /\ \A q \in 1..(p - 1) : arr[q] # arr[p]}
    IN  [k \in 1..Cardinality(keep) |->
            arr[CHOOSE p \in keep : Cardinality({q \in keep : q <= p}) = k]]

\* arr.join(''): undefined elements contribute the empty string
Join(arr) == SelectSeq(arr, LAMBDA c : c # Undefined)

\* a round that calls the generator twice and uses the second value
shuffleStep_drawsTwice(loop, i) ==
    LET next == rngNextState(rngNextState(loop.state))
    IN  [arr |-> Swap(loop.arr, i, drawIndex(next, i + 1)), state |-> next]

\* one round of the loop body: draw j from the generator, swap arr[i], arr[j]
shuffleStep(loop, i) ==
    LET next == rngNextState(loop.state)
    IN  [arr |-> Swap(loop.arr, i, drawIndex(next, i + 1)), state |-> next]

\* the rounds i = hi, hi - 1, ..., lo of  for (let i = arr.length - 1; i > 0; i--),
\* in that order
RECURSIVE shuffleLoop(_, _, _)
shuffleLoop(loop, hi, lo) ==
    IF hi < lo THEN loop
    ELSE IF hi = lo THEN shuffleStep(loop, hi)
    ELSE LET mid == (lo + hi) \div 2
         IN  CHOOSE r \in {shuffleLoop(l, mid, lo) :
                              l \in {shuffleLoop(loop, hi, mid + 1)}} : TRUE

deterministicShuffle(str, seed) ==
    Join(shuffleLoop([arr |-> str, state |-> seed], Len(str) - 1, 1).arr)

(***************************************************************************)
(* generateTable(key)                                                      *)
(***************************************************************************)
\* obj[k] = v on a plain object
Put(obj, k, v) == (k :> v) @@ obj

EmptyObject == <<>>

\* a round with the two tables exchanged: encryptTable[shuffled[i]] = chars[i],
\* decryptTable[chars[i]] = shuffled[i]
tableStep_tablesExchanged(shuffled, i, tables) ==
    [encryptTable |-> Put(tables.encryptTable, At(shuffled, i), At(chars, i)),
     decryptTable |-> Put(tables.decryptTable, At(chars, i), At(shuffled, i))]

\* the inverse table filled from the next index: decryptTable[shuffled[i]] = chars[i + 1]
tableStep_inverseOffByOne(shuffled, i, tables) ==
    [encryptTable |-> Put(tables.encryptTable, At(chars, i), At(shuffled, i)),
     decryptTable |-> Put(tables.decryptTable, At(shuffled, i), At(chars, i + 1))]

\* one round of the loop body
tableStep(shuffled, i, tables) ==
    [encryptTable |-> Put(tables.encryptTable, At(chars, i), At(shuffled, i)),
     decryptTable |-> Put(tables.decryptTable, At(shuffled, i), At(chars, i))]

\* the rounds i = lo, ..., hi of  for (let i = 0; i < chars.length; i++)
RECURSIVE tableLoop(_, _, _, _)
tableLoop(shuffled, lo, hi, tables) ==
    IF hi < lo THEN tables
    ELSE IF lo = hi THEN tableStep(shuffled, lo, tables)
    ELSE LET mid == (lo + hi) \div 2
         IN  CHOOSE r \in {tableLoop(shuffled, mid + 1, hi, t) :
                              t \in {tableLoop(shuffled, lo, mid, tables)}} : TRUE

\* a table whose seed also depends on the key's length:
\* seed = this.hashKey(key) + key.length
generateTable_seedPlusLength(key) ==
    CHOOSE r \in
        { tableLoop(shuffled, 0, Len(chars) - 1,
                    [encryptTable |-> EmptyObject, decryptTable |-> EmptyObject]) :
            shuffled \in {deterministicShuffle(chars,
                              LET seed == hashKey(key)
                              IN  Carry(<<seed[1] + Len(key), seed[2], seed[3]>>,
                                        1, 3, 0))} } : TRUE

generateTable(key) ==
    CHOOSE r \in
        { tableLoop(shuffled, 0, Len(chars) - 1,
                    [encryptTable |-> EmptyObject, decryptTable |-> EmptyObject]) :
            shuffled \in {deterministicShuffle(chars, hashKey(key))} } : TRUE

(***************************************************************************)
(* encrypt(text), decrypt(text) of an instance                             *)
(***************************************************************************)
\* table[c]: undefined for a property the object does not have
Lookup(table, c) == IF c \in DOMAIN table THEN table[c] ELSE Undefined

\* the operands exchanged: c || v
OrElse_operandsExchanged(v, c) == c

\* v || c, for v a one-character string or undefined
OrElse(v, c) == IF v = Undefined THEN c ELSE v

\* encrypt that leaves the first character as it is: the substitution
\* starts at index 1
encrypt_skipsFirst(this, text) ==
    [p \in 1..Len(text) |->
        IF p = 1 THEN text[p]
        ELSE OrElse(Lookup(this.encryptTable, text[p]), text[p])]

\* encrypt without the fallback: map(c => this.encryptTable[c]).join('')
\* drops every character the table does not hold
encrypt_noFallback(this, text) ==
    SelectSeq([p \in 1..Len(text) |-> Lookup(this.encryptTable, text[p])],
              LAMBDA c : c # Undefined)

\* encrypt reading the inverse table
encrypt_byInverseTable(this, text) ==
    [p \in 1..Len(text) |-> OrElse(Lookup(this.decryptTable, text[p]), text[p])]

\* text.split('').map(c => this.encryptTable[c] || c).join('')
encrypt(this, text) ==
    [p \in 1..Len(text) |-> OrElse(Lookup(this.encryptTable, text[p]), text[p])]

\* decrypt reading the forward table
decrypt_byForwardTable(this, text) ==
    [p \in 1..Len(text) |-> OrElse(Lookup(this.encryptTable, text[p]), text[p])]

\* decrypt with a fallback that also replaces what the table does not hold:
\* this.decryptTable[c] || ''
decrypt_emptyFallback(this, text) ==
    SelectSeq([p \in 1..Len(text) |-> Lookup(this.decryptTable, text[p])],
              LAMBDA c : c # Undefined)

\* text.split('').map(c => this.decryptTable[c] || c).join('')
decrypt(this, text) ==
    [p \in 1..Len(text) |-> OrElse(Lookup(this.decryptTable, text[p]), text[p])]

(***************************************************************************)
(* testConsistency(testText), getTableInfo() of an instance                *)
(***************************************************************************)
\* "Test123abcXYZ", the default of testText
DefaultTestText == <<84, 101, 115, 116, 49, 50, 51, 97, 98, 99, 88, 89, 90>>

\* a self-check that compares the input with the ciphertext
testConsistency_comparesEncrypted(this, testText) ==
    LET encrypted == encrypt(this, testText)
    IN  testText = encrypted

\* encrypt, decrypt, return testText === decrypted
testConsistency(this, testText) ==
    LET encrypted == encrypt(this, testText)
        decrypted == decrypt(this, encrypted)
    IN  testText = decrypted

\* Object.keys(table): the properties the object holds
ObjectKeys(table) == DOMAIN table

\* the 62 of isComplete
CompleteSize == 62

\* a report whose sample reads the inverse table
getTableInfo_sampleOfInverse(this) ==
    LET encryptKeys == ObjectKeys(this.encryptTable)
        decryptKeys == ObjectKeys(this.decryptTable)
    IN  [encryptTableSize |-> Cardinality(encryptKeys),
         decryptTableSize |-> Cardinality(decryptKeys),
         isComplete |-> (Cardinality(encryptKeys) = CompleteSize
                            /\ Cardinality(decryptKeys) = CompleteSize),
         sampleMapping |-> [c \in {CodeLowerA, CodeUpperA, CodeDigit0} |->
                               Lookup(this.decryptTable, c)]]

\* the object getTableInfo returns; sampleMapping has the properties 'a', 'A', '0'
getTableInfo(this) ==
    LET encryptKeys == ObjectKeys(this.encryptTable)
        decryptKeys == ObjectKeys(this.decryptTable)
    IN  [encryptTableSize |-> Cardinality(encryptKeys),
         decryptTableSize |-> Cardinality(decryptKeys),
         isComplete |-> (Cardinality(encryptKeys) = CompleteSize
                            /\ Cardinality(decryptKeys) = CompleteSize),
         sampleMapping |-> [c \in {CodeLowerA, CodeUpperA, CodeDigit0} |->
                               Lookup(this.encryptTable, c)]]

(***************************************************************************)
(* Inputs.  An optional value is <<>> (absent, undefined) or <<v>>.        *)
(***************************************************************************)
None == <<>>
Some(v) == <<v>>

\* "SKU_AI_KEY", the default of every secretKey parameter
SKU_AI_KEY == <<83, 75, 85, 95, 65, 73, 95, 75, 69, 89>>
\* "MONO_CIPHER_KEY", the key of the offline decoder and of the documentation
MONO_CIPHER_KEY == <<77, 79, 78, 79, 95, 67, 73, 80, 72, 69, 82, 95, 75, 69, 89>>
\* "TEST_ENV_KEY", the value the test gives the environment variable
TEST_ENV_KEY == <<84, 69, 83, 84, 95, 69, 78, 86, 95, 75, 69, 89>>

\* the keys callers pass in the calls explored
Keys == {SKU_AI_KEY, MONO_CIPHER_KEY}
\* what a caller passes for secretKey: nothing, or a key other than the default
KeyArgs == {None} \cup {Some(k) : k \in Keys \ {SKU_AI_KEY}}
\* process.env.MONO_CIPHER_KEY: unset, or a key
EnvValues == {None, Some(TEST_ENV_KEY)}

\* more keys, for the construction of tables: "", "TEST_KEY", "KEY_ONE",
\* "KEY_TWO", "fA2tw", "Aa", "BB" (equal hashes), the one-character key
\* U+20AC (outside the alphabet, beyond 8 bits), and "16C4NAI", whose int32
\* hash is -2^31
\* "KEY_ONE", "KEY_TWO": the two keys of the test of different keys
KEY_ONE == <<75, 69, 89, 95, 79, 78, 69>>
KEY_TWO == <<75, 69, 89, 95, 84, 87, 79>>
\* "Aa", "BB": two keys of one hash (31 * 65 + 97 = 31 * 66 + 66)
KeyAa == <<65, 97>>
KeyBB == <<66, 66>>
\* "fA2tw": its int32 hash is 96187322, that of "KEY_ONE" is -96187322
KeyOpposite == <<102, 65, 50, 116, 119>>

BuildKeys ==
    Keys \cup
    { <<>>,
      TEST_ENV_KEY,
      <<84, 69, 83, 84, 95, 75, 69, 89>>,
      KEY_ONE,
      KEY_TWO,
      KeyOpposite,
      KeyAa,
      KeyBB,
      <<8364>>,
      <<49, 54, 67, 52, 78, 65, 73>> }
BuildKeyArgs == {None} \cup {Some(k) : k \in BuildKeys}

\* '@', the separator of a SKU
CodeAt == 64

\* "!@#$%^&*()_+-=[]{}|;':\",./<>?"
SpecialChars ==
    <<33, 64, 35, 36, 37, 94, 38, 42, 40, 41, 95, 43, 45, 61, 91, 93, 123, 125,
      124, 59, 39, 58, 34, 44, 46, 47, 60, 62, 63>>
\* "m12345678", "shopname/item123", "ABC123def456"
TestProductIds ==
    { <<109, 49, 50, 51, 52, 53, 54, 55, 56>>,
      <<115, 104, 111, 112, 110, 97, 109, 101, 47, 105, 116, 101, 109, 49, 50, 51>>,
      <<65, 66, 67, 49, 50, 51, 100, 101, 102, 52, 53, 54>> }
\* "S5smas8TFSWpJUso6Ro3vK", the product id of the README's basic usage
ReadmeProductId ==
    <<83, 53, 115, 109, 97, 115, 56, 84, 70, 83, 87, 112, 74, 85, 115, 111, 54, 82,
      111, 51, 118, 75>>
\* "growdetradingltd/falr61105b147", the id of the README's URL obfuscation
UrlProductId ==
    <<103, 114, 111, 119, 100, 101, 116, 114, 97, 100, 105, 110, 103, 108, 116, 100,
      47, 102, 97, 108, 114, 54, 49, 49, 48, 53, 98, 49, 52, 55>>
\* "Hello123World", the text of the basic test
HelloWorld == <<72, 101, 108, 108, 111, 49, 50, 51, 87, 111, 114, 108, 100>>
\* "si" (the default prefix), "ys"
PrefixSi == <<115, 105>>
PrefixYs == <<121, 115>>

MaxLen == 1
MaxInstances == 2

\* the characters short inputs are built from: 'a' and '@'
TextChars == {CodeLowerA, CodeAt}
ShortTexts == UNION {[1..n -> TextChars] : n \in 0..MaxLen}
\* the texts of calls: the short ones, the special-character string of the
\* test, the test's product ids, and the whole alphabet in order
Texts ==
    ShortTexts \cup {SpecialChars, chars} \cup TestProductIds
        \cup {ReadmeProductId, HelloWorld}
ProductIds == ShortTexts \cup TestProductIds \cup {UrlProductId}
PrefixArgs == {None, Some(PrefixYs), Some(<<CodeLowerA, CodeAt>>)}

(***************************************************************************)
(* State                                                                   *)
(***************************************************************************)
VARIABLES
    env,        \* process.env.MONO_CIPHER_KEY
    instances,  \* the MonoalphabeticCipher objects constructed, in order
    builtFrom,  \* builtFrom[i]: the secretKey instances[i] was constructed with
    call,       \* the last call: operation, arguments, result
    prev,       \* the call before it, when its result is the last call's input
    build       \* a construction followed loop round by loop round: its locals

vars == <<env, instances, builtFrom, call, prev, build>>

NoDecoded == [prefix |-> <<>>, productId |-> <<>>, type |-> "none"]
\* no table report: the fields of a call that is not getTableInfo
NoInfo ==
    [encryptTableSize |-> 0, decryptTableSize |-> 0, isComplete |-> FALSE,
     sampleMapping |-> <<>>]
\* result: the string returned; bool: the boolean returned; info: the report returned
NoCall ==
    [op |-> "none", inst |-> 0, keyArg |-> None, secretKey |-> <<>>, prefix |-> <<>>,
     text |-> <<>>, result |-> <<>>, decoded |-> NoDecoded, threw |-> FALSE,
     bool |-> FALSE, info |-> NoInfo]

\* the locals of a construction that has not begun.  pc: the loop the
\* construction is in; hash, i: hashKey's; seed, shuffled, tables:
\* generateTable's; str, arr, state (the generator's), i, j:
\* deterministicShuffle's; before: the generator's state ahead of its last
\* step; visited: the indexes the shuffle's loop has taken, in order;
\* whole: generateTable runs, not deterministicShuffle alone
NoBuild ==
    [pc |-> "idle", whole |-> FALSE, key |-> <<>>, hash |-> <<0, 0, 0>>,
     seed |-> <<0, 0, 0>>, str |-> <<>>, arr |-> <<>>, state |-> <<0, 0, 0>>,
     before |-> <<0, 0, 0>>, i |-> 0, j |-> 0, visited |-> <<>>,
     shuffled |-> <<>>,
     tables |-> [encryptTable |-> <<>>, decryptTable |-> <<>>]]

\* a parameter with a default value: the default applies to undefined
Default(arg, default) == IF arg = None THEN default ELSE arg[1]

\* new MonoalphabeticCipher(secretKey): the constructor
\* generateTable is a function of the key alone, so the tables of the keys
\* of the model are tabulated once
TableOfKey == [k \in BuildKeys |-> generateTable(k)] @@ <<>>

\* a constructor whose seed also depends on how many instances exist already
Construct_carriedSeed(secretKey) ==
    generateTable(secretKey \o [n \in 1..Len(instances) |-> CodeDigit0])

Construct(secretKey) ==
    IF secretKey \in DOMAIN TableOfKey THEN TableOfKey[secretKey]
    ELSE generateTable(secretKey)

Init ==
    /\ env = None
    /\ instances = <<>>
    /\ builtFrom = <<>>
    /\ call = NoCall
    /\ prev = NoCall
    /\ build = NoBuild

\* process.env.MONO_CIPHER_KEY = v, or delete process.env.MONO_CIPHER_KEY
SetEnv(v) ==
    /\ env # v
    /\ env' = v
    /\ UNCHANGED <<instances, builtFrom, call, prev, build>>

\* a constructor that validates its key: if (!secretKey) throw new Error(...)
New_rejectsEmptyKey(keyArg) ==
    /\ Len(instances) < MaxInstances
    /\ LET secretKey == Default(keyArg, SKU_AI_KEY)
       IN  IF secretKey = <<>>
           THEN /\ call' = [NoCall EXCEPT !.op = "new", !.keyArg = keyArg,
                                          !.secretKey = secretKey, !.threw = TRUE]
                /\ UNCHANGED <<instances, builtFrom>>
           ELSE /\ instances' = Append(instances, Construct(secretKey))
                /\ builtFrom' = Append(builtFrom, secretKey)
                /\ call' = [NoCall EXCEPT !.op = "new", !.inst = Len(instances) + 1,
                                          !.keyArg = keyArg, !.secretKey = secretKey]
    /\ prev' = NoCall
    /\ UNCHANGED <<env, build>>

\* new MonoalphabeticCipher(keyArg)
New(keyArg) ==
    /\ Len(instances) < MaxInstances
    /\ LET secretKey == Default(keyArg, SKU_AI_KEY)
       IN  /\ instances' = Append(instances, Construct(secretKey))
           /\ builtFrom' = Append(builtFrom, secretKey)
           /\ call' = [NoCall EXCEPT !.op = "new", !.inst = Len(instances) + 1,
                                     !.keyArg = keyArg, !.secretKey = secretKey]
    /\ prev' = NoCall
    /\ UNCHANGED <<env, build>>

\* a createCipher whose tables are shared by all instances: constructing one
\* replaces the tables of those that exist
CreateCipher_sharedTables(keyArg) ==
    /\ Len(instances) < MaxInstances
    /\ LET secretKey == Default(keyArg, SKU_AI_KEY)
           shared    == Construct(secretKey)
       IN  /\ instances' = [i \in 1..(Len(instances) + 1) |-> shared]
           /\ builtFrom' = Append(builtFrom, secretKey)
           /\ call' = [NoCall EXCEPT !.op = "createCipher", !.inst = Len(instances) + 1,
                                     !.keyArg = keyArg, !.secretKey = secretKey]
    /\ prev' = NoCall
    /\ UNCHANGED <<env, build>>

\* createCipher(keyArg), the default export
CreateCipher(keyArg) ==
    /\ Len(instances) < MaxInstances
    /\ LET secretKey == Default(keyArg, SKU_AI_KEY)
       IN  /\ instances' = Append(instances, Construct(secretKey))
           /\ builtFrom' = Append(builtFrom, secretKey)
           /\ call' = [NoCall EXCEPT !.op = "createCipher", !.inst = Len(instances) + 1,
                                     !.keyArg = keyArg, !.secretKey = secretKey]
    /\ prev' = NoCall
    /\ UNCHANGED <<env, build>>

\* the inputs of a call on text: a text of the input set, or the result of
\* the call just made by one of the operations in `after` (then prev keeps
\* that call)
TextInput(text, after) ==
    \/ /\ text \in Texts
       /\ prev' = NoCall
    \/ /\ call.op \in after
       /\ prev = NoCall
       /\ ~call.threw
       /\ text = call.result
       /\ prev' = call

\* instances[i].encrypt(text)
Encrypt(i) ==
    /\ i \in 1..Len(instances)
    /\ \E text \in Texts \cup {call.result} :
        /\ TextInput(text, {"decrypt"})
        /\ call' = [NoCall EXCEPT !.op = "encrypt", !.inst = i, !.secretKey = builtFrom[i],
                                  !.text = text, !.result = encrypt(instances[i], text)]
    /\ UNCHANGED <<env, instances, builtFrom, build>>

\* a decrypt that exchanges the two tables of its instance to reuse encrypt,
\* and does not exchange them back
Decrypt_leavesTablesSwapped(i) ==
    /\ i \in 1..Len(instances)
    /\ \E text \in Texts \cup {call.result} :
        /\ TextInput(text, {"encrypt"})
        /\ call' = [NoCall EXCEPT !.op = "decrypt", !.inst = i, !.secretKey = builtFrom[i],
                                  !.text = text, !.result = decrypt(instances[i], text)]
    /\ instances' = [instances EXCEPT ![i] = [encryptTable |-> @.decryptTable,
                                              decryptTable |-> @.encryptTable]]
    /\ UNCHANGED <<env, builtFrom, build>>

\* instances[i].decrypt(text)
Decrypt(i) ==
    /\ i \in 1..Len(instances)
    /\ \E text \in Texts \cup {call.result} :
        /\ TextInput(text, {"encrypt"})
        /\ call' = [NoCall EXCEPT !.op = "decrypt", !.inst = i, !.secretKey = builtFrom[i],
                                  !.text = text, !.result = decrypt(instances[i], text)]
    /\ UNCHANGED <<env, instances, builtFrom, build>>

\* what a caller passes for testText: nothing, or a text
TestTextArgs == {None} \cup {Some(text) : text \in Texts}

\* instances[i].testConsistency(textArg)
TestConsistency(i, textArg) ==
    /\ i \in 1..Len(instances)
    /\ LET testText == Default(textArg, DefaultTestText)
       IN  call' = [NoCall EXCEPT !.op = "testConsistency", !.inst = i,
                                  !.secretKey = builtFrom[i], !.text = testText,
                                  !.bool = testConsistency(instances[i], testText)]
    /\ prev' = NoCall
    /\ UNCHANGED <<env, instances, builtFrom, build>>

\* instances[i].getTableInfo()
GetTableInfo(i) ==
    /\ i \in 1..Len(instances)
    /\ call' = [NoCall EXCEPT !.op = "getTableInfo", !.inst = i,
                              !.secretKey = builtFrom[i],
                              !.info = getTableInfo(instances[i])]
    /\ prev' = NoCall
    /\ UNCHANGED <<env, instances, builtFrom, build>>

(***************************************************************************)
(* The module-level helpers of index.js.  Each constructs a cipher of its  *)
(* own and drops it on return.                                             *)
(***************************************************************************)
\* s.split(sep) for a one-character separator: the pieces between its occurrences
RECURSIVE Split(_, _)
Split(s, sep) ==
    IF \A p \in 1..Len(s) : s[p] # sep THEN <<s>>
    ELSE LET first == CHOOSE p \in 1..Len(s) : s[p] = sep /\ \A q \in 1..(p - 1) : s[q] # sep
         IN  <<SubSeq(s, 1, first - 1)>> \o Split(SubSeq(s, first + 1, Len(s)), sep)

\* "monoalphabetic"
TypeMonoalphabetic == "monoalphabetic"

\* encrypt(text, keyArg)
EncryptFn(keyArg) ==
    /\ \E text \in Texts \cup {call.result} :
        /\ TextInput(text, {"decryptFn"})
        /\ LET secretKey == Default(keyArg, SKU_AI_KEY)
               cipher    == Construct(secretKey)
           IN  call' = [NoCall EXCEPT !.op = "encryptFn", !.keyArg = keyArg,
                                      !.secretKey = secretKey, !.text = text,
                                      !.result = encrypt(cipher, text)]
    /\ UNCHANGED <<env, instances, builtFrom, build>>

\* decrypt(text, keyArg)
DecryptFn(keyArg) ==
    /\ \E text \in Texts \cup {call.result} :
        /\ TextInput(text, {"encryptFn"})
        /\ LET secretKey == Default(keyArg, SKU_AI_KEY)
               cipher    == Construct(secretKey)
           IN  call' = [NoCall EXCEPT !.op = "decryptFn", !.keyArg = keyArg,
                                      !.secretKey = secretKey, !.text = text,
                                      !.result = decrypt(cipher, text)]
    /\ UNCHANGED <<env, instances, builtFrom, build>>

\* generateSKU(productId, prefixArg, keyArg)
GenerateSKU(productId, prefixArg, keyArg) ==
    /\ LET prefix    == Default(prefixArg, PrefixSi)
           secretKey == Default(keyArg, SKU_AI_KEY)
           cipher    == Construct(secretKey)
           encrypted == encrypt(cipher, productId)
       IN  call' = [NoCall EXCEPT !.op = "generateSKU", !.keyArg = keyArg,
                                  !.secretKey = secretKey, !.prefix = prefix,
                                  !.text = productId,
                                  !.result = prefix \o <<CodeAt>> \o encrypted]
    /\ prev' = NoCall
    /\ UNCHANGED <<env, instances, builtFrom, build>>

\* a split whose missing second part defaults to the empty string:
\* const [prefix, encrypted = ''] = sku.split('@')
SplitAndDecrypt_emptyWhenAbsent(cipher, sku) ==
    LET parts     == Split(sku, CodeAt)
        encrypted == IF Len(parts) >= 2 THEN parts[2] ELSE <<>>
    IN  [threw |-> FALSE, prefix |-> parts[1],
         productId |-> decrypt(cipher, encrypted)]

\* const [prefix, encrypted] = sku.split('@'); cipher.decrypt(encrypted):
\* decrypt of undefined throws a TypeError (undefined has no split)
SplitAndDecrypt(cipher, sku) ==
    LET parts     == Split(sku, CodeAt)
        encrypted == IF Len(parts) >= 2 THEN Some(parts[2]) ELSE None
    IN  IF encrypted = None
        THEN [threw |-> TRUE, prefix |-> parts[1], productId |-> <<>>]
        ELSE [threw |-> FALSE, prefix |-> parts[1],
              productId |-> decrypt(cipher, encrypted[1])]

\* decodeSKU(sku, keyArg)
DecodeSKU(keyArg) ==
    /\ \E sku \in Texts \cup {call.result} :
        /\ TextInput(sku, {"generateSKU"})
        /\ LET secretKey == Default(keyArg, SKU_AI_KEY)
               cipher    == Construct(secretKey)
               got       == SplitAndDecrypt(cipher, sku)
           IN  call' = [NoCall EXCEPT
                          !.op = "decodeSKU", !.keyArg = keyArg, !.secretKey = secretKey,
                          !.text = sku, !.threw = got.threw,
                          !.decoded = IF got.threw THEN NoDecoded
                                      ELSE [prefix |-> got.prefix,
                                            productId |-> got.productId,
                                            type |-> TypeMonoalphabetic]]
    /\ UNCHANGED <<env, instances, builtFrom, build>>

\* the offline decoder of the Chrome extension (simulateChromeExtensionDecode
\* of the test, decodeSKUtoURL of the README): a cipher of the key
\* "MONO_CIPHER_KEY" decrypts the part after '@'.  The URL it builds from the
\* two parts is left out.
ExtensionDecode ==
    /\ \E sku \in Texts \cup {call.result} :
        /\ TextInput(sku, {"generateSKU"})
        /\ LET cipher == Construct(MONO_CIPHER_KEY)
               got    == SplitAndDecrypt(cipher, sku)
           IN  call' = [NoCall EXCEPT
                          !.op = "extensionDecode", !.keyArg = Some(MONO_CIPHER_KEY),
                          !.secretKey = MONO_CIPHER_KEY,
                          !.text = sku, !.threw = got.threw,
                          !.decoded = IF got.threw THEN NoDecoded
                                      ELSE [prefix |-> got.prefix,
                                            productId |-> got.productId,
                                            type |-> "none"]]
    /\ UNCHANGED <<env, instances, builtFrom, build>>

\* the cipher: construction, the methods, the two one-call helpers
Next ==
    \/ \E v \in EnvValues : SetEnv(v)
    \/ \E keyArg \in KeyArgs : New(keyArg)
    \/ \E keyArg \in KeyArgs : CreateCipher(keyArg)
    \/ \E i \in 1..MaxInstances : Encrypt(i)
    \/ \E i \in 1..MaxInstances : Decrypt(i)
    \/ \E i \in 1..MaxInstances, textArg \in TestTextArgs : TestConsistency(i, textArg)
    \/ \E i \in 1..MaxInstances : GetTableInfo(i)
    \/ \E keyArg \in KeyArgs : EncryptFn(keyArg)
    \/ \E keyArg \in KeyArgs : DecryptFn(keyArg)

Spec == Init /\ [][Next]_vars

\* the SKU helpers and the offline decoder; they neither read nor write the
\* instances a caller holds, so they are explored on their own
NextSku ==
    \/ \E v \in EnvValues : SetEnv(v)
    \/ \E productId \in ProductIds, prefixArg \in PrefixArgs, keyArg \in KeyArgs :
          GenerateSKU(productId, prefixArg, keyArg)
    \/ \E keyArg \in KeyArgs : DecodeSKU(keyArg)
    \/ ExtensionDecode

SpecSku == Init /\ [][NextSku]_vars

\* construction and the table report, over the larger set of keys
NextBuild ==
    \/ \E v \in EnvValues : SetEnv(v)
    \/ \E keyArg \in BuildKeyArgs : New(keyArg)
    \/ \E keyArg \in BuildKeyArgs : CreateCipher(keyArg)
    \/ \E i \in 1..MaxInstances : GetTableInfo(i)

SpecBuild == Init /\ [][NextBuild]_vars

(***************************************************************************)
(* A construction followed round by round: generateTable(key) calls        *)
(* hashKey, then deterministicShuffle, then fills the two tables; each     *)
(* round of each of the three loops is a step.                             *)
(***************************************************************************)
\* the sequences handed to deterministicShuffle when it is called on its
\* own: "", "a", "aab" and "Hello123World" (elements that repeat)
ShuffleInputs == {<<>>, <<CodeLowerA>>, <<CodeLowerA, CodeLowerA, CodeLowerA + 1>>, HelloWorld}

\* generateTable(key) is entered and calls hashKey(key): let hash = 0, i = 0
BeginGenerateTable(key) ==
    /\ build.pc \in {"idle", "done"}
    /\ build' = [NoBuild EXCEPT !.pc = "hashKey", !.whole = TRUE, !.key = key]
    /\ UNCHANGED <<env, instances, builtFrom, call, prev>>

\* one round of hashKey's loop
HashKeyRound ==
    /\ build.pc = "hashKey"
    /\ build.i < Len(build.key)
    /\ build' = [build EXCEPT !.hash = hashStep(@, At(build.key, build.i)),
                              !.i = @ + 1]
    /\ UNCHANGED <<env, instances, builtFrom, call, prev>>

\* the first lines of deterministicShuffle(str, seed): arr = str.split(''),
\* random = this.seededRandom(seed), i = arr.length - 1
EnterShuffle(b, str, seed) ==
    [b EXCEPT !.pc = "shuffle", !.seed = seed, !.str = str, !.arr = str,
              !.state = seed, !.before = seed, !.i = Len(str) - 1, !.j = 0,
              !.visited = <<>>]

\* hashKey returns Math.abs(hash); generateTable calls
\* deterministicShuffle(chars, seed)
HashKeyReturn ==
    /\ build.pc = "hashKey"
    /\ build.i >= Len(build.key)
    /\ build' = EnterShuffle(build, chars, MathAbs(build.hash))
    /\ UNCHANGED <<env, instances, builtFrom, call, prev>>

\* deterministicShuffle(str, hashKey(key)) called on its own
BeginShuffle(str, key) ==
    /\ build.pc \in {"idle", "done"}
    /\ build' = EnterShuffle([NoBuild EXCEPT !.key = key], str, hashKey(key))
    /\ UNCHANGED <<env, instances, builtFrom, call, prev>>

\* one round of the shuffle's loop: j is drawn, arr[i] and arr[j] are
\* exchanged, i--
ShuffleRound ==
    /\ build.pc = "shuffle"
    /\ build.i > 0
    /\ LET loop == shuffleStep([arr |-> build.arr, state |-> build.state], build.i)
       IN  build' = [build EXCEPT !.arr = loop.arr, !.state = loop.state,
                                  !.before = build.state,
                                  !.j = drawIndex(loop.state, build.i + 1),
                                  !.visited = Append(@, build.i),
                                  !.i = @ - 1]
    /\ UNCHANGED <<env, instances, builtFrom, call, prev>>

\* the loop is left and deterministicShuffle returns arr.join(''); in
\* generateTable the loop over chars begins with two empty tables
ShuffleReturn ==
    /\ build.pc = "shuffle"
    /\ build.i <= 0
    /\ build' = [build EXCEPT !.pc = IF build.whole THEN "table" ELSE "done",
                              !.shuffled = Join(build.arr),
                              !.i = 0,
                              !.tables = [encryptTable |-> EmptyObject,
                                          decryptTable |-> EmptyObject]]
    /\ UNCHANGED <<env, instances, builtFrom, call, prev>>

\* one round of generateTable's loop
TableRound ==
    /\ build.pc = "table"
    /\ build.i < Len(chars)
    /\ build' = [build EXCEPT !.tables = tableStep(build.shuffled, build.i, @),
                              !.i = @ + 1]
    /\ UNCHANGED <<env, instances, builtFrom, call, prev>>

\* generateTable has filled this.encryptTable and this.decryptTable
TableReturn ==
    /\ build.pc = "table"
    /\ build.i >= Len(chars)
    /\ build' = [build EXCEPT !.pc = "done"]
    /\ UNCHANGED <<env, instances, builtFrom, call, prev>>

\* constructions and shuffles, one after the other, round by round
NextRounds ==
    \/ \E key \in BuildKeys : BeginGenerateTable(key)
    \/ HashKeyRound
    \/ HashKeyReturn
    \/ \E str \in ShuffleInputs, key \in BuildKeys : BeginShuffle(str, key)
    \/ ShuffleRound
    \/ ShuffleReturn
    \/ TableRound
    \/ TableReturn

SpecRounds == Init /\ [][NextRounds]_vars

(***************************************************************************)
(* Properties of the cipher                                                *)
(***************************************************************************)
\* C1: for every key and every string, decrypting what an instance has just
\* encrypted gives the string back, and so does the helper decrypt(text, K)
\* on the result of the helper encrypt(text, K) with the same key.
C1_RoundTrip ==
    /\ (call.op = "decrypt" /\ prev.op = "encrypt" /\ call.inst = prev.inst)
          => call.result = prev.text
    /\ (call.op = "decryptFn" /\ prev.op = "encryptFn" /\ call.secretKey = prev.secretKey)
          => call.result = prev.text

\* a product id with characters inside and outside the alphabet went through
\* encrypt, came out different, and went through decrypt of the same instance
C1_Witness ==
    /\ call.op = "decrypt" /\ prev.op = "encrypt" /\ call.inst = prev.inst
    /\ prev.text \in TestProductIds
    /\ \E p \in 1..Len(prev.text) : prev.text[p] \notin Alphabet
    /\ prev.result # prev.text

\* C2: after construction the forward table of every instance is a
\* permutation of the alphabet: its keys are exactly the alphabet, its values
\* are exactly the alphabet, and no two characters share a value.
C2_ForwardTablePermutation ==
    \A i \in 1..Len(instances) :
        LET table == instances[i].encryptTable
        IN  /\ DOMAIN table = Alphabet
            /\ {table[c] : c \in DOMAIN table} = Alphabet
            /\ Cardinality({table[c] : c \in DOMAIN table}) = Cardinality(DOMAIN table)

\* an instance exists whose forward table moves some character
C2_Witness ==
    \E i \in 1..Len(instances) :
        \E c \in Alphabet : Lookup(instances[i].encryptTable, c) \notin {c, Undefined}

C5_LengthPreserved ==
    call.op \in {"encrypt", "decrypt", "encryptFn", "decryptFn"} =>
        /\ Len(call.result) = Len(call.text)
        /\ call.text = <<>> => call.result = <<>>

\* the empty string has been encrypted and the result decrypted
C5_Witness ==
    /\ prev.op = "encrypt" /\ prev.text = <<>>
    /\ call.op = "decrypt" /\ call.text = <<>>

\* C6: encrypting what an instance (or the helper, with the same key) has
\* just decrypted gives the text back.
C6_ReverseRoundTrip ==
    /\ (call.op = "encrypt" /\ prev.op = "decrypt" /\ call.inst = prev.inst)
          => call.result = prev.text
    /\ (call.op = "encryptFn" /\ prev.op = "decryptFn" /\ call.secretKey = prev.secretKey)
          => call.result = prev.text

\* the whole alphabet went through decrypt, came out different, and went
\* through encrypt of the same instance
C6_Witness ==
    /\ call.op = "encrypt" /\ prev.op = "decrypt" /\ call.inst = prev.inst
    /\ prev.text = chars
    /\ prev.result # chars

\* C7: the inverse table of every instance inverts the forward table on every
\* character of the alphabet, and has as many entries as the alphabet.
C7_InverseTableExact ==
    \A i \in 1..Len(instances) :
        /\ \A c \in Alphabet :
              Lookup(instances[i].decryptTable, Lookup(instances[i].encryptTable, c)) = c
        /\ Cardinality(DOMAIN instances[i].decryptTable) = Cardinality(Alphabet)

\* an instance exists whose forward table sends some character to another,
\* which the inverse table holds
C7_Witness ==
    \E i \in 1..Len(instances) :
        \E c \in Alphabet :
            /\ Lookup(instances[i].encryptTable, c) # c
            /\ Lookup(instances[i].encryptTable, c) \in DOMAIN instances[i].decryptTable

(***************************************************************************)
(* Properties of the SKU helpers and of the key a call uses                *)
(***************************************************************************)
\* C8: for every product id, every prefix and every key, decodeSKU of the
\* SKU generateSKU has just made, with the same key, returns the prefix, the
\* product id and the type "monoalphabetic".
C8_SkuRoundTrip ==
    (call.op = "decodeSKU" /\ prev.op = "generateSKU" /\ call.keyArg = prev.keyArg) =>
        /\ ~call.threw
        /\ call.decoded = [prefix |-> prev.prefix, productId |-> prev.text,
                           type |-> TypeMonoalphabetic]

\* C9: every call that takes a key (the constructor, createCipher, the
\* helpers encrypt and decrypt) uses the explicit secretKey when one is
\* passed, else the value of the environment variable when it is set, else
\* "MONO_CIPHER_KEY".  A step that leaves env alone is such a call or a
\* method call of an instance.
C9_KeyPriority ==
    [][ (env' = env /\ call'.op \in {"new", "createCipher", "encryptFn", "decryptFn"})
           => call'.secretKey = IF call'.keyArg # None THEN call'.keyArg[1]
                                ELSE IF env # None THEN env[1]
                                ELSE MONO_CIPHER_KEY ]_vars

\* C10: a SKU made by generateSKU without a key, for a product id of the
\* test, is decoded by the offline decoder (split on '@', decrypt the second
\* part with the key "MONO_CIPHER_KEY") to the same product id and prefix.
C10_OfflineDecode ==
    ( /\ call.op = "extensionDecode"
      /\ prev.op = "generateSKU"
      /\ prev.keyArg = None
      /\ prev.text \in TestProductIds ) =>
        /\ ~call.threw
        /\ call.decoded.productId = prev.text
        /\ call.decoded.prefix = prev.prefix

(***************************************************************************)
(* Properties of keys, of the self-checks and of whole runs                *)
(***************************************************************************)
\* "DifferentKeysTest", the text of the test of different keys
DifferentKeysTest ==
    <<68, 105, 102, 102, 101, 114, 101, 110, 116, 75, 101, 121, 115, 84, 101, 115, 116>>

\* C11, as claimed: two instances constructed from different keys give
\* different ciphertexts for every text that holds a character of the alphabet.
C11_DifferentKeysDiffer ==
    \A i, j \in 1..Len(instances) :
        builtFrom[i] # builtFrom[j] =>
            \A text \in Texts \cup {DifferentKeysTest, <<68>>} :
                (\E p \in 1..Len(text) : text[p] \in Alphabet)
                    => encrypt(instances[i], text) # encrypt(instances[j], text)

\* C11, amended: two instances constructed from different keys give different
\* ciphertexts for a text exactly when their forward tables differ on a
\* character of the text; they do for the keys "KEY_ONE" and "KEY_TWO" on the
\* text of the test.
C11_KeySensitivity ==
    \A i, j \in 1..Len(instances) :
        builtFrom[i] # builtFrom[j] =>
            /\ \A text \in Texts \cup {DifferentKeysTest, <<68>>} :
                  (encrypt(instances[i], text) # encrypt(instances[j], text))
                     <=> (\E p \in 1..Len(text) :
                             Lookup(instances[i].encryptTable, text[p])
                                # Lookup(instances[j].encryptTable, text[p]))
            /\ (builtFrom[i] = KEY_ONE /\ builtFrom[j] = KEY_TWO)
                  => encrypt(instances[i], DifferentKeysTest)
                        # encrypt(instances[j], DifferentKeysTest)

\* instances of "KEY_ONE" and of "KEY_TWO" exist, and they encrypt the
\* text of the test differently
C11_Witness ==
    \E i, j \in 1..Len(instances) :
        /\ builtFrom[i] = KEY_ONE
        /\ builtFrom[j] = KEY_TWO
        /\ encrypt(instances[i], DifferentKeysTest) # encrypt(instances[j], DifferentKeysTest)

\* C12: testConsistency returns the truth value of decrypt(encrypt(t)) = t
\* for its sample t, the default sample when none is passed, and so returns
\* true for every key and every sample.
C12_TestConsistencyTrue ==
    call.op = "testConsistency" =>
        /\ call.bool = (decrypt(instances[call.inst],
                                encrypt(instances[call.inst], call.text)) = call.text)
        /\ call.bool = TRUE

\* testConsistency() has been called without a sample and has checked the
\* default sample, which its instance encrypts to another string
C12_Witness ==
    /\ call.op = "testConsistency"
    /\ call.text = DefaultTestText
    /\ call.bool
    /\ encrypt(instances[call.inst], call.text) # call.text

C15_NeverRaises ==
    /\ call.op \in {"new", "createCipher"} =>
          /\ ~call.threw
          /\ call.inst = Len(instances)
          /\ builtFrom[call.inst] = call.secretKey
    /\ \A i \in 1..Len(instances) :
          \A text \in Texts :
              LET encrypted == encrypt(instances[i], text)
                  decrypted == decrypt(instances[i], text)
              IN  /\ DOMAIN encrypted = 1..Len(text)
                  /\ DOMAIN decrypted = 1..Len(text)
                  /\ \A p \in 1..Len(text) :
                        encrypted[p] \in 0..65535 /\ decrypted[p] \in 0..65535

\* an instance has been constructed from the empty key and another from a
\* key with a character outside the alphabet and beyond eight bits
C15_Witness ==
    /\ call.op \in {"new", "createCipher"}
    /\ \E i \in 1..Len(instances) : builtFrom[i] = <<>>
    /\ \E i \in 1..Len(instances) :
          \E p \in 1..Len(builtFrom[i]) :
              builtFrom[i][p] \notin Alphabet /\ builtFrom[i][p] > 255

\* C16: in every interleaving of encrypt and decrypt calls on the instances,
\* a call returns what it returns when it is the only call made on an
\* instance of that key: the result under the tables as constructed.
C16_CallsIndependent ==
    /\ call.op = "encrypt" =>
          call.result = encrypt(Construct(builtFrom[call.inst]), call.text)
    /\ call.op = "decrypt" =>
          call.result = decrypt(Construct(builtFrom[call.inst]), call.text)

\* with two instances constructed, an encrypt call on the second has
\* followed a decrypt call on the second, and both have changed their text
C16_Witness ==
    /\ Len(instances) = 2
    /\ call.op = "encrypt" /\ prev.op = "decrypt"
    /\ call.inst = 2 /\ prev.inst = 2
    /\ call.result # call.text /\ prev.result # prev.text

\* C17: no call changes the tables of an instance that exists: not encrypt,
\* decrypt, testConsistency or getTableInfo on it or on another instance, not
\* the construction of another instance, not a helper.
C17_TablesFrozen ==
    [][ \A i \in 1..Len(instances) :
            /\ i \in 1..Len(instances')
            /\ instances'[i].encryptTable = instances[i].encryptTable
            /\ instances'[i].decryptTable = instances[i].decryptTable ]_vars

\* two instances of different keys exist, a method of the first has just
\* been called, and the first still holds the tables of its key
C17_Witness ==
    /\ Len(instances) = 2
    /\ builtFrom[1] # builtFrom[2]
    /\ call.op \in {"encrypt", "decrypt", "testConsistency", "getTableInfo"}
    /\ call.inst = 1
    /\ instances[1] = Construct(builtFrom[1])
    /\ instances[1] # instances[2]

(***************************************************************************)
(* The examples of the documentation and of the tests                      *)
(***************************************************************************)
\* "kUnXKnHqfkmAv9nAUjAusg", the ciphertext the README prints
ReadmeEncrypted ==
    <<107, 85, 110, 88, 75, 110, 72, 113, 102, 107, 109, 65, 118, 57, 110, 65, 85,
      106, 65, 117, 115, 103>>
\* "ys@eQAZ9gUKO7peP3bHOBPQ6uGp", the SKU the README prints
ReadmeSku ==
    <<121, 115, 64, 101, 81, 65, 90, 57, 103, 85, 75, 79, 55, 112, 101, 80, 51, 98,
      72, 79, 66, 80, 81, 54, 117, 71, 112>>

\* C18: an instance constructed without a key (its key is the default of the
\* constructor) encrypts "S5smas8TFSWpJUso6Ro3vK" to
\* "kUnXKnHqfkmAv9nAUjAusg" and decrypts that back.
C18_ReadmeExample ==
    ( /\ call.op = "encrypt"
      /\ builtFrom[call.inst] = Default(None, SKU_AI_KEY)
      /\ call.text = ReadmeProductId ) =>
        /\ call.result = ReadmeEncrypted
        /\ decrypt(instances[call.inst], ReadmeEncrypted) = ReadmeProductId

\* C19: generateSKU("growdetradingltd/falr61105b147", "ys") without a key
\* returns "ys@eQAZ9gUKO7peP3bHOBPQ6uGp".
C19_ReadmeSku ==
    ( /\ call.op = "generateSKU"
      /\ call.keyArg = None
      /\ call.prefix = PrefixYs
      /\ call.text = UrlProductId ) =>
        call.result = ReadmeSku

\* C20: an instance of the key "MONO_CIPHER_KEY" encrypts "Hello123World" to
\* a string of 13 characters other than "Hello123World", and decrypts that
\* string to "Hello123World".
C20_HelloWorld ==
    /\ ( /\ call.op = "encrypt"
         /\ builtFrom[call.inst] = MONO_CIPHER_KEY
         /\ call.text = HelloWorld ) =>
           /\ Len(call.result) = 13
           /\ call.result # HelloWorld
    /\ ( /\ call.op = "decrypt" /\ prev.op = "encrypt"
         /\ call.inst = prev.inst
         /\ builtFrom[call.inst] = MONO_CIPHER_KEY
         /\ prev.text = HelloWorld ) =>
           call.result = HelloWorld

\* an instance of "MONO_CIPHER_KEY" has encrypted "Hello123World" and
\* decrypted the result
C20_Witness ==
    /\ call.op = "decrypt" /\ prev.op = "encrypt"
    /\ call.inst = prev.inst
    /\ builtFrom[call.inst] = MONO_CIPHER_KEY
    /\ prev.text = HelloWorld
    /\ Len(HelloWorld) = 13

\* C21: in every round of the shuffle, for every seed hashKey returns, the
\* generator's state is at least 0 and below 0x7fffffff, so that the value
\* state / 0x7fffffff is at least 0 and below 1; the index j drawn in the
\* round of index i is at least 0 and at most i; the exchange leaves the
\* array as long as the input and writes no undefined element.
C21_DrawInRange ==
    (build.pc = "shuffle" /\ build.visited # <<>>) =>
        LET i == build.visited[Len(build.visited)]
        IN  /\ build.state[3] < 2^(31 - 2 * LimbBits)
            /\ build.state # ToLimbs(LcgDivisor)
            /\ 0 <= build.j /\ build.j <= i
            /\ Len(build.arr) = Len(build.str)
            /\ \A p \in 1..Len(build.arr) : build.arr[p] # Undefined

\* the shuffle of the alphabet from the seed 2^31 (the largest hashKey
\* returns) has drawn the index j = i, the top of its range
C21_Witness ==
    /\ build.pc = "shuffle" /\ build.whole
    /\ build.seed = <<0, 0, 2^(31 - 2 * LimbBits)>>
    /\ build.visited # <<>>
    /\ build.j = build.visited[Len(build.visited)]

\* C22: what deterministicShuffle returns is as long as its input and holds
\* every element as many times as the input does, for the alphabet and for
\* sequences with repeated elements, from every seed explored.
C22_ShufflePermutes ==
    (build.pc \in {"table", "done"}) =>
        /\ Len(build.shuffled) = Len(build.str)
        /\ \A c \in {build.str[p] : p \in 1..Len(build.str)}
                    \cup {build.shuffled[p] : p \in 1..Len(build.shuffled)} :
              Cardinality({p \in 1..Len(build.shuffled) : build.shuffled[p] = c})
                = Cardinality({p \in 1..Len(build.str) : build.str[p] = c})

\* "Hello123World", with its three l and two o, came back in another order
C22_Witness ==
    /\ build.pc = "done" /\ ~build.whole
    /\ build.str = HelloWorld
    /\ build.shuffled # build.str

\* C23: after each step of the generator the state equals
\* (state * 1103515245 + 12345) mod 2^31 computed on exact integers, where
\* the state ahead of the step is build.before.
C23_ExactLcg ==
    (build.pc = "shuffle" /\ build.visited # <<>>) =>
        LET product == MulLimbs(build.before, ToLimbs(LcgMultiplier))
            sum     == Carry([product EXCEPT ![1] = product[1] + LcgIncrement],
                             1, Len(product), 0)
        IN  build.state = Mask31(sum)

\* C24: hashKey starts from 0; each round replaces hash by 31 * hash + code
\* wrapped to 32 bits; what it returns is the absolute value of the signed
\* reading of the last hash (the hash itself below 2^31, its complement to
\* 2^32 otherwise), which is also what the operator hashKey gives; for the
\* empty key it is 0.
C24_HashFold ==
    /\ [](build.pc = "hashKey" /\ build.i = 0 => build.hash = <<0, 0, 0>>)
    /\ [](build.whole /\ build.pc \in {"shuffle", "table", "done"} =>
            /\ build.seed = hashKey(build.key)
            /\ build.key = <<>> => build.seed = <<0, 0, 0>>
            /\ \/ build.hash[3] < 2^(31 - 2 * LimbBits) /\ build.seed = build.hash
               \/ /\ build.hash[3] >= 2^(31 - 2 * LimbBits)
                  /\ Carry(<<build.seed[1] + build.hash[1],
                             build.seed[2] + build.hash[2],
                             build.seed[3] + build.hash[3]>>, 1, 3, 0)
                       = <<0, 0, 2^(32 - 2 * LimbBits)>>)
    /\ [][(build.pc = "hashKey" /\ build'.pc = "hashKey" /\ build' # build) =>
            LET times31 == MulLimbs(build.hash, ToLimbs(31))
                code    == build.key[build.i + 1]
            IN  /\ build'.i = build.i + 1
                /\ build'.hash =
                     Wrap32(Carry([times31 EXCEPT ![1] = times31[1] + code],
                                  1, Len(times31), 0))]_vars

\* hashKey has returned for a key whose hash wrapped around to a negative
\* int32: the seed is the hash's complement
C24_Witness ==
    /\ build.whole /\ build.pc = "shuffle" /\ build.visited = <<>>
    /\ build.key = KEY_ONE
    /\ build.hash[3] >= 2^(31 - 2 * LimbBits)
    /\ build.seed # build.hash

\* C25: the seed hashKey returns is an integer of at least 0 and below 2^32
\* (it is at most 2^31, the absolute value of the least int32).
C25_SeedRange ==
    (build.whole /\ build.pc \in {"shuffle", "table", "done"}) =>
        /\ Len(build.seed) = 3
        /\ build.seed[1] \in 0..(LimbBase - 1)
        /\ build.seed[2] \in 0..(LimbBase - 1)
        /\ build.seed[3] \in 0..(2^(32 - 2 * LimbBits) - 1)
        /\ \/ build.seed[3] < 2^(31 - 2 * LimbBits)
           \/ build.seed = <<0, 0, 2^(31 - 2 * LimbBits)>>

\* hashKey("16C4NAI") has returned 2^31: a seed above every int32 and
\* below 2^32
C25_Witness ==
    /\ build.whole /\ build.pc = "shuffle" /\ build.visited = <<>>
    /\ build.key = <<49, 54, 67, 52, 78, 65, 73>>
    /\ build.seed = <<0, 0, 2^(31 - 2 * LimbBits)>>

\* C26: the shuffle's loop takes the indexes length - 1, length - 2, ..., 1
\* in that order and never the index 0; in the round of index i the
\* generator is stepped exactly once, j is the floor of its value times
\* i + 1, and the elements at i and j are exchanged before i is decremented;
\* outside the rounds the generator is not stepped, so a shuffle of n
\* elements draws n - 1 values; the sequence returned is the one the
\* operator deterministicShuffle gives.
C26_ShuffleOrder ==
    /\ [](build.pc = "shuffle" =>
            build.visited = [k \in 1..(Len(build.str) - 1 - build.i) |->
                                Len(build.str) - k])
    /\ [](build.pc \in {"table", "done"} =>
            build.visited = [k \in 1..(Len(build.str) - 1) |-> Len(build.str) - k])
    /\ [][/\ (build.pc = "shuffle" /\ build'.pc = "shuffle" /\ build' # build) =>
                /\ build.i >= 1
                /\ build'.visited = Append(build.visited, build.i)
                /\ build'.state = rngNextState(build.state)
                /\ build'.j = drawIndex(build'.state, build.i + 1)
                /\ build'.arr = Swap(build.arr, build.i, build'.j)
                /\ build'.i = build.i - 1
          /\ (build.pc # "shuffle" /\ build'.pc = "shuffle") =>
                /\ build'.state = build'.seed
                /\ build'.visited = <<>>
          /\ (build.pc = "shuffle" /\ build'.pc # "shuffle") =>
                /\ build.i <= 0
                /\ build'.state = build.state
                /\ build'.shuffled = Join(build.arr)
                /\ build'.shuffled = deterministicShuffle(build.str, build.seed)]_vars

\* the shuffle of the 62 characters has taken its 61 rounds, from index 61
\* down to index 1
C26_Witness ==
    /\ build.pc = "table" /\ build.i = 0
    /\ Len(build.visited) = Len(chars) - 1
    /\ build.visited[1] = Len(chars) - 1
    /\ build.visited[Len(build.visited)] = 1

\* C27: generateTable fills both tables in one loop over the alphabet: after
\* the rounds 0..i-1 the forward table holds exactly the characters
\* chars[0..i-1], each mapped to the character of shuffled at its index, and
\* the inverse table holds exactly shuffled[0..i-1], each mapped back to the
\* character of chars at its index, where shuffled is
\* deterministicShuffle(chars, hashKey(key)); at the end nothing else has
\* been written and the tables are those of the constructor.
C27_TablesFromShuffle ==
    (build.whole /\ build.pc \in {"table", "done"}) =>
        LET n == IF build.pc = "done" THEN Len(chars) ELSE build.i
            E == build.tables.encryptTable
            D == build.tables.decryptTable
        IN  /\ DOMAIN E = {chars[p] : p \in 1..n}
            /\ DOMAIN D = {build.shuffled[p] : p \in 1..n}
            /\ \A p \in 1..n : /\ E[chars[p]] = build.shuffled[p]
                               /\ D[build.shuffled[p]] = chars[p]
            /\ build.pc = "done" =>
                  /\ build.shuffled = deterministicShuffle(chars, hashKey(build.key))
                  /\ build.tables = Construct(build.key)

\* the tables of "MONO_CIPHER_KEY" are complete and move 'a'
C27_Witness ==
    /\ build.whole /\ build.pc = "done"
    /\ build.key = MONO_CIPHER_KEY
    /\ Cardinality(DOMAIN build.tables.encryptTable) = Len(chars)
    /\ build.tables.encryptTable[CodeLowerA] # CodeLowerA

\* C28: two instances whose keys have the same hashKey hold identical tables
\* and give identical ciphertext; so do "Aa" and "BB" (the same int32 hash)
\* and "KEY_ONE" and "fA2tw" (int32 hashes -96187322 and 96187322).
C28_TablesThroughHash ==
    \A i, j \in 1..Len(instances) :
        LET sameTables == /\ instances[i] = instances[j]
                          /\ encrypt(instances[i], HelloWorld)
                               = encrypt(instances[j], HelloWorld)
        IN  /\ (i < j /\ hashKey(builtFrom[i]) = hashKey(builtFrom[j])) => sameTables
            /\ (builtFrom[i] = KeyAa /\ builtFrom[j] = KeyBB) => sameTables
            /\ (builtFrom[i] = KEY_ONE /\ builtFrom[j] = KeyOpposite) => sameTables

\* instances of "KEY_ONE" and of "fA2tw" exist side by side, with tables
\* that are no identity
C28_Witness ==
    /\ Len(instances) = 2
    /\ builtFrom[1] = KEY_ONE /\ builtFrom[2] = KeyOpposite
    /\ instances[1] = instances[2]
    /\ encrypt(instances[1], HelloWorld) # HelloWorld

\* C29: decodeSKU on a string without '@' returns no result object: the
\* call ends with the error raised by decrypt of the absent second part.
C29_DecodeWithoutSeparator ==
    (call.op = "decodeSKU" /\ \A p \in 1..Len(call.text) : call.text[p] # CodeAt) =>
        /\ call.threw
        /\ call.decoded = NoDecoded

\* decodeSKU("Hello123World") has raised
C29_Witness ==
    /\ call.op = "decodeSKU"
    /\ call.text = HelloWorld
    /\ call.threw

\* C30: for every way of writing the text of an encrypt call as s + t, the
\* result is encrypt(s) + encrypt(t) under the same tables; likewise for
\* decrypt, and for the helpers encrypt(text, key) and decrypt(text, key).
C30_Concatenation ==
    LET text   == call.text
        cipher == IF call.op \in {"encrypt", "decrypt"} THEN instances[call.inst]
                  ELSE Construct(call.secretKey)
    IN  /\ call.op \in {"encrypt", "encryptFn"} =>
              \A n \in 0..Len(text) :
                  call.result = encrypt(cipher, SubSeq(text, 1, n))
                                  \o encrypt(cipher, SubSeq(text, n + 1, Len(text)))
        /\ call.op \in {"decrypt", "decryptFn"} =>
              \A n \in 0..Len(text) :
                  call.result = decrypt(cipher, SubSeq(text, 1, n))
                                  \o decrypt(cipher, SubSeq(text, n + 1, Len(text)))

\* an instance has encrypted the 22 characters of "S5smas8TFSWpJUso6Ro3vK",
\* which split in 23 ways, and changed them
C30_Witness ==
    /\ call.op = "encrypt"
    /\ call.text = ReadmeProductId
    /\ call.result # call.text
    /\ Len(call.result) = Len(call.text)

====
